---- MODULE Spec2Model ----
(***************************************************************************)
(* Model of src/tear_comparer.py: class TearCompare.                       *)
(*                                                                         *)
(* Numbers.  The code works on floating point arrays; the model keeps the  *)
(* exact rational value of every number.  A signature is a record          *)
(* [num, den]: entry c of the vector is num[c] / den.                      *)
(* Python indexes from 0, TLA+ from 1: prep_scale[1] here is prep_scale[0] *)
(* in the code (the width W), prep_scale[2] is prep_scale[1] (the height). *)
(* An edge map is given by the set of rows whose pixel is 255, per column. *)
(*                                                                         *)
(* Three specifications share the definitions:                             *)
(*   SpecSig   get_edge_identity_vector alone, on every edge map of every  *)
(*             size up to (MaxW, MaxH);                                    *)
(*   Spec      the class as written: up to two instances constructed with  *)
(*             the default database argument, and calls of build_db,       *)
(*             compare_with_db, compare_db and load_db;                    *)
(*   SpecAttr  one instance whose caller also executes                     *)
(*             `t.database = t.db`.  compare_with_db and compare_db read   *)
(*             self.database, which no line of the class assigns; only     *)
(*             after such an assignment do they get past their first loop  *)
(*             header.                                                     *)
(* image_prep (OpenCV) is outside the model: the methods are given its     *)
(* result, the edge map.                                                   *)
(***************************************************************************)
EXTENDS Integers, Sequences, FiniteSets, TLC

\* Largest processing width and height drawn for signature derivation.
MaxW == 3
MaxH == 6

\* Largest number of calls a caller makes in one run.
MaxCalls == 4

Names == {"a", "b"}
Insts == {1, 2}

VARIABLES
    prep_scale,   \* self.prep_scale = (W, H)
    edges,        \* the edge map handed to get_edge_identity_vector
    id_vector,    \* what get_edge_identity_vector gave for it
    heap,         \* the dict objects alive: object id -> dict, as the
                  \* sequence of its items in insertion order
    ctor,         \* per instance: "none" (not constructed yet), "default"
                  \* (constructed, no database argument) or "never"
    db,           \* self.db: the id of the dict object it refers to
    database,     \* self.database: {} while the attribute does not exist,
                  \* {id} once a caller has assigned it
    matches,      \* self.matches: a function from some names to names
    ret,          \* the last call: what was called and how it ended
    calls         \* how many calls the caller has made

sigvars == <<prep_scale, edges, id_vector>>
objvars == <<heap, ctor, db, database, matches, ret, calls>>
vars == <<prep_scale, edges, id_vector, heap, ctor, db, database, matches, ret,
          calls>>

----------------------------------------------------------------------------
\* Arithmetic helpers.

Abs(x) == IF x < 0 THEN -x ELSE x

RECURSIVE SumSet(_)
SumSet(S) == IF S = {} THEN 0
             ELSE LET x == CHOOSE y \in S : TRUE IN x + SumSet(S \ {x})

RECURSIVE SumSeq(_)
SumSeq(s) == IF s = <<>> THEN 0 ELSE Head(s) + SumSeq(Tail(s))

RECURSIVE Gcd(_, _)
Gcd(a, b) == IF b = 0 THEN a ELSE Gcd(b, a % b)

\* Least common multiple of 1..n: a common denominator of every slope
\* np.interp can form between two columns of a W = n + 1 wide profile.
RECURSIVE LcmUpTo(_)
LcmUpTo(n) == IF n <= 1 THEN 1
              ELSE LET l == LcmUpTo(n - 1) IN (l * n) \div Gcd(l, n)

\* np.around(num / den): round to nearest, halves to the even neighbour.
around(num, den) ==
    LET q == num \div den
        r == num % den
    IN  IF 2 * r < den THEN q
        ELSE IF 2 * r > den THEN q + 1
        ELSE IF q % 2 = 0 THEN q ELSE q + 1

----------------------------------------------------------------------------
\* get_edge_identity_vector

\* np.around(np.mean(np.where(col == 255))) for one column; the mean of an
\* empty selection is NaN.
ColumnPosition(rows) ==
    IF rows = {} THEN [nan |-> TRUE, v |-> 0]
    ELSE [nan |-> FALSE, v |-> around(SumSet(rows), Cardinality(rows))]

\* np.interp(x, xp, fp) at one NaN column c, times the common denominator D:
\* left of the first sample its value, right of the last sample its value,
\* linear between the two neighbouring samples otherwise.
Interp(c, positions, D) ==
    LET xp == {k \in DOMAIN positions : ~positions[k].nan}
        lo == {k \in xp : k < c}
        hi == {k \in xp : k > c}
        l  == CHOOSE k \in lo : \A j \in lo : j <= k
        r  == CHOOSE k \in hi : \A j \in hi : j >= k
    IN  IF lo = {} THEN D * positions[r].v
        ELSE IF hi = {} THEN D * positions[l].v
        ELSE D * positions[l].v
             + (positions[r].v - positions[l].v) * (c - l) * (D \div (r - l))

NoVector == [exc |-> "ValueError", num |-> <<>>, den |-> 1]

\* No vector: get_edge_identity_vector was not called.
NotRun == [exc |-> "notrun", num |-> <<>>, den |-> 1]

\* Lines 79-82: the position of the edge in every column.
Positions(e, scale) == [c \in 1..scale[1] |-> ColumnPosition(e[c])]

\* Lines 89-108 on a profile with at least one position: fill the NaNs,
\* subtract the mean, divide by prep_scale[0].
Normalized(positions, scale) ==
    LET W == scale[1]
        D == LcmUpTo(W - 1)
        filled == [c \in 1..W |->
                     IF positions[c].nan THEN Interp(c, positions, D)
                     ELSE D * positions[c].v]
        total == SumSeq(filled)
        \* positions[i] - positions.mean(), over the denominator W * D
        final_array == [c \in 1..W |-> W * filled[c] - total]
    IN  [exc |-> "none", num |-> final_array, den |-> W * D * scale[1]]

\* A derivation that reads a column without edge as position 0.
get_edge_identity_vector_zero(e, scale) ==
    Normalized([c \in 1..scale[1] |->
                  IF e[c] = {} THEN [nan |-> FALSE, v |-> 0]
                  ELSE ColumnPosition(e[c])], scale)

\* np.interp raises ValueError ("array of sample points is empty") when no
\* column has a position; nothing in the class catches it.
get_edge_identity_vector(e, scale) ==
    IF \A c \in 1..scale[1] : Positions(e, scale)[c].nan THEN NoVector
    ELSE Normalized(Positions(e, scale), scale)

----------------------------------------------------------------------------
\* Python dicts: a sequence of items [k, v] in insertion order.

Keys(d) == [j \in 1..Len(d) |-> d[j].k]

HasKey(d, k) == \E j \in 1..Len(d) : d[j].k = k

Get(d, k) == d[CHOOSE j \in 1..Len(d) : d[j].k = k].v

\* dict.setdefault(k, v): an existing key keeps its value.
SetDefault(d, k, v) ==
    IF \E j \in 1..Len(d) : d[j].k = k THEN d
    ELSE Append(d, [k |-> k, v |-> v])

\* d[k] = v: an existing key keeps its place, a new key goes last.
SetItem(d, k, v) ==
    IF HasKey(d, k)
    THEN [j \in 1..Len(d) |-> IF d[j].k = k THEN [k |-> k, v |-> v] ELSE d[j]]
    ELSE Append(d, [k |-> k, v |-> v])

\* m[k] = v on a name -> name dict whose order nothing reads.
SetMatch(m, k, v) == (k :> v) @@ m

----------------------------------------------------------------------------
\* The objects.

\* The prep_scale argument the instances of a matcher run are constructed
\* with: two columns of two rows, the smallest size whose signatures differ.
MatcherScale == <<2, 2>>

EdgeMaps(scale) == [1..scale[1] -> SUBSET (0..(scale[2] - 1))]

\* The dict object the constructor's default argument `database = {}` is
\* bound to: created once, when the def statement runs.
DefaultDict == 0

Sentinel == "Database empty, no matches found"

\* Every object that can still be reached: through an attribute, or, while
\* an instance is still to be constructed, as the default argument.
Live(dbf, databasef, ctorf) ==
    {dbf[i] : i \in {j \in Insts : ctorf[j] = "default"}}
        \cup UNION {databasef[i] : i \in Insts}
        \cup (IF \E i \in Insts : ctorf[i] = "none" THEN {DefaultDict} ELSE {})

Collect(h, live) == [o \in live |-> h[o]]

Call(op, i, name, add, e, vec, outcome, value) ==
    [op |-> op, inst |-> i, name |-> name, add |-> add,
     blank |-> \A c \in DOMAIN e : e[c] = {},
     vec |-> vec, outcome |-> outcome, value |-> value]

\* What Call and edges hold for a call that takes no image.
NoImage == [c \in 1..MatcherScale[1] |-> {0}]

\* __init__(self, database = {}, prep_scale): no database argument given.
Construct(i) ==
    /\ ctor[i] = "none"
    /\ ctor' = [ctor EXCEPT ![i] = "default"]
    /\ db' = [db EXCEPT ![i] = DefaultDict]
    /\ matches' = [matches EXCEPT ![i] = <<>>]
    /\ heap' = Collect(heap, Live(db', database, ctor'))
    /\ ret' = Call("__init__", i, "", FALSE, NoImage, NotRun, "return", "None")
    /\ UNCHANGED <<database, sigvars>>

\* build_db(self, image, entry_name); e is image_prep(image).
build_db(i, e, entry_name) ==
    LET vec == get_edge_identity_vector(e, prep_scale) IN
    /\ ctor[i] = "default"
    /\ IF vec.exc # "none"
       THEN /\ ret' = Call("build_db", i, entry_name, FALSE, e, vec,
                           "raise", vec.exc)
            /\ UNCHANGED heap
       ELSE /\ heap' = [heap EXCEPT ![db[i]] = SetItem(@, entry_name, vec)]
            /\ ret' = Call("build_db", i, entry_name, FALSE, e, vec,
                           "return", "None")
    /\ UNCHANGED <<ctor, db, database, matches, sigvars>>

\* abs(np.linalg.norm(u - v)), squared and times den * den: the order of two
\* distances is the order of these.
Dist(u, v) == SumSeq([c \in 1..Len(u.num) |->
                        (u.num[c] - v.num[c]) * (u.num[c] - v.num[c])])

\* dist_list.index(dist_array.min()): the first index of the least entry.
MinIndex(dist_list) ==
    CHOOSE j \in 1..Len(dist_list) :
        /\ \A k \in 1..Len(dist_list) : dist_list[j] <= dist_list[k]
        /\ \A k \in 1..(j - 1) : dist_list[k] # dist_list[j]

\* compare_with_db(self, image, entry_name, add_vector_to_db)
\* (\E x \in {v} names the value v as x, as an assignment does.)
compare_with_db(i, e, entry_name, add) ==
    /\ ctor[i] = "default"
    /\ \E vec \in {get_edge_identity_vector(e, prep_scale)} :
       /\ IF vec.exc # "none"
          THEN /\ ret' = Call("compare_with_db", i, entry_name, add, e, vec,
                              "raise", vec.exc)
               /\ UNCHANGED <<heap, matches>>
          ELSE IF database[i] = {}
          THEN \* line 126: self.database is no attribute of the object
               /\ ret' = Call("compare_with_db", i, entry_name, add, e, vec,
                              "raise", "AttributeError")
               /\ UNCHANGED <<heap, matches>>
          ELSE \E d \in {heap[o] : o \in database[i]} :
               \E dist_list \in {[j \in 1..Len(d) |-> Dist(vec, d[j].v)]} :
               \* dist_array.min() of an empty array raises, and the except
               \* clause swallows it: match_index stays unbound (0 here)
               \E match_index \in {IF Len(d) > 0 THEN MinIndex(dist_list) ELSE 0} :
               \E h1 \in {IF add
                          THEN [heap EXCEPT ![db[i]] = SetItem(@, entry_name, vec)]
                          ELSE heap} :
                   /\ matches' = IF match_index # 0
                                 THEN [matches EXCEPT ![i] =
                                         SetMatch(SetMatch(@, entry_name,
                                                           d[match_index].k),
                                                  d[match_index].k, entry_name)]
                                 ELSE matches
                   /\ heap' = h1
                   /\ ret' = IF Len(h1[db[i]]) # 0
                             THEN IF match_index # 0
                                  THEN Call("compare_with_db", i, entry_name, add,
                                            e, vec, "return", d[match_index].k)
                                  ELSE Call("compare_with_db", i, entry_name, add,
                                            e, vec, "raise", "UnboundLocalError")
                             ELSE Call("compare_with_db", i, entry_name, add,
                                       e, vec, "return", Sentinel)
    /\ UNCHANGED <<ctor, db, database, sigvars>>

\* The loops of compare_db over the keys still to visit as key1.  Line 182
\* appends `key`, a name bound nowhere: the first key2 # key1 raises
\* NameError out of the call, before any match is stored.
RECURSIVE compare_db_loop(_, _, _)
compare_db_loop(todo, d, m) ==
    IF todo = <<>> THEN [m |-> m, exc |-> "none"]
    ELSE LET key1 == Head(todo) IN
         IF key1 \in DOMAIN m THEN compare_db_loop(Tail(todo), d, m)
         ELSE IF \E j \in 1..Len(d) : d[j].k # key1
              THEN [m |-> m, exc |-> "NameError"]
              \* no other key: min() of the empty array raises, swallowed
              ELSE compare_db_loop(Tail(todo), d, m)

\* compare_db(self)
compare_db(i) ==
    LET call(outcome, value) ==
            Call("compare_db", i, "", FALSE, NoImage, NotRun, outcome, value)
    IN
    /\ ctor[i] = "default"
    /\ IF database[i] = {}
       THEN \* line 170: self.database is no attribute of the object
            /\ ret' = call("raise", "AttributeError")
            /\ UNCHANGED matches
       ELSE LET d == heap[CHOOSE o \in database[i] : TRUE]
                r == compare_db_loop(Keys(d), d, matches[i])
            IN  /\ matches' = [matches EXCEPT ![i] = r.m]
                /\ ret' = IF r.exc = "none" THEN call("return", "None")
                          ELSE call("raise", r.exc)
    /\ UNCHANGED <<heap, ctor, db, database, sigvars>>

\* The signatures get_edge_identity_vector can give at the matcher's size.
Signatures ==
    {get_edge_identity_vector(e, MatcherScale) : e \in EdgeMaps(MatcherScale)}
        \ {NoVector}

\* What pickle.load may give: the empty collection, or one entry.
Pickled ==
    {<<>>} \cup {<<[k |-> n, v |-> sig]>> : n \in Names, sig \in Signatures}

\* A load_db that starts the instance over: it also empties self.matches.
load_db_reset(i, file) ==
    /\ ctor[i] = "default"
    /\ IF file = <<>>
       THEN UNCHANGED <<heap, db>>
       ELSE LET used == DOMAIN heap \cup {DefaultDict}
                fresh == CHOOSE o \in 1..(Cardinality(used) + 1) : o \notin used
                db1 == [db EXCEPT ![i] = fresh]
            IN  /\ db' = db1
                /\ heap' = Collect((fresh :> file[1]) @@ heap,
                                   Live(db1, database, ctor))
    /\ ret' = Call("load_db", i, "", FALSE, NoImage, NotRun, "return", "None")
    /\ matches' = [matches EXCEPT ![i] = <<>>]
    /\ UNCHANGED <<ctor, database, sigvars>>

\* load_db(self, dict_file): file is <<>> when open or pickle.load raises
\* (the except clause prints and leaves self.db), <<loaded>> otherwise.
load_db(i, file) ==
    /\ ctor[i] = "default"
    /\ IF file = <<>>
       THEN UNCHANGED <<heap, db>>
       ELSE LET used == DOMAIN heap \cup {DefaultDict}
                fresh == CHOOSE o \in 1..(Cardinality(used) + 1) : o \notin used
                db1 == [db EXCEPT ![i] = fresh]
            IN  /\ db' = db1
                /\ heap' = Collect((fresh :> file[1]) @@ heap,
                                   Live(db1, database, ctor))
    /\ ret' = Call("load_db", i, "", FALSE, NoImage, NotRun, "return", "None")
    /\ UNCHANGED <<ctor, database, matches, sigvars>>

\* A caller's statement `t.database = t.db`: the class itself never assigns
\* the attribute that lines 126, 127, 170, 176 and 180 read.
SetDatabaseAttr(i) ==
    /\ ctor[i] = "default"
    /\ database' = [database EXCEPT ![i] = {db[i]}]
    /\ heap' = Collect(heap, Live(db, database', ctor))
    /\ ret' = Call("setattr", i, "", FALSE, NoImage, NotRun, "return", "None")
    /\ UNCHANGED <<ctor, db, matches, sigvars>>

----------------------------------------------------------------------------
\* The matcher.  It starts with one instance constructed with the default
\* database argument.  A caller makes up to MaxCalls calls.

Init ==
    /\ prep_scale = MatcherScale
    /\ edges = NoImage
    /\ id_vector = NotRun
    /\ heap = (DefaultDict :> <<>>)
    /\ ctor = [i \in Insts |-> IF i = 1 THEN "default" ELSE "none"]
    /\ db = [i \in Insts |-> DefaultDict]
    /\ database = [i \in Insts |-> {}]
    /\ matches = [i \in Insts |-> <<>>]
    /\ ret = Call("__init__", 1, "", FALSE, NoImage, NotRun, "return", "None")
    /\ calls = 0

\* One more call, while the caller has calls left.
Called == calls < MaxCalls /\ calls' = calls + 1

Build == Called /\ \E i \in Insts, n \in Names, e \in EdgeMaps(prep_scale) :
            build_db(i, e, n)

Compare == Called /\ \E i \in Insts, n \in Names, e \in EdgeMaps(prep_scale),
              add \in BOOLEAN : compare_with_db(i, e, n, add)

CompareDb == Called /\ \E i \in Insts : compare_db(i)

LoadDb == Called /\ \E i \in Insts, file \in {<<>>} \cup {<<p>> : p \in Pickled} :
            load_db(i, file)

New == Called /\ \E i \in Insts : Construct(i)

SetAttr == Called /\ \E i \in Insts : SetDatabaseAttr(i)

\* The class as written, used by a caller that constructs up to two
\* instances and only calls their methods: self.database never exists.
Next == New \/ Build \/ Compare \/ CompareDb \/ LoadDb

Spec == Init /\ [][Next]_vars

\* A caller that constructs one instance only and also assigns its
\* attribute `database`.
InitAttr ==
    /\ prep_scale = MatcherScale
    /\ edges = NoImage
    /\ id_vector = NotRun
    /\ heap = (DefaultDict :> <<>>)
    /\ ctor = [i \in Insts |-> IF i = 1 THEN "default" ELSE "never"]
    /\ db = [i \in Insts |-> DefaultDict]
    /\ database = [i \in Insts |-> {}]
    /\ matches = [i \in Insts |-> <<>>]
    /\ ret = Call("__init__", 1, "", FALSE, NoImage, NotRun, "return", "None")
    /\ calls = 0

NextAttr == Build \/ Compare \/ CompareDb \/ LoadDb \/ SetAttr

SpecAttr == InitAttr /\ [][NextAttr]_vars

----------------------------------------------------------------------------
\* Signature derivation on its own: every size up to (MaxW, MaxH), every
\* edge map of that size.

Sizes == (1..MaxW) \X (1..MaxH)

InitSig ==
    /\ prep_scale \in Sizes
    /\ edges \in EdgeMaps(prep_scale)
    /\ id_vector = NotRun
    /\ heap = (DefaultDict :> <<>>)
    /\ ctor = [i \in Insts |-> IF i = 1 THEN "default" ELSE "none"]
    /\ db = [i \in Insts |-> DefaultDict]
    /\ database = [i \in Insts |-> {}]
    /\ matches = [i \in Insts |-> <<>>]
    /\ ret = Call("__init__", 1, "", FALSE, NoImage, NotRun, "return", "None")
    /\ calls = 0

Derive ==
    /\ id_vector = NotRun
    /\ id_vector' = get_edge_identity_vector(edges, prep_scale)
    /\ UNCHANGED <<prep_scale, edges, objvars>>

NextSig == Derive

SpecSig == InitSig /\ [][NextSig]_vars

----------------------------------------------------------------------------
\* The claims.  Coll(i) is the Signature Collection of instance i, self.db;
\* the Match Set is self.matches.  A step whose ret' names an operation is a
\* call of that operation: every action sets ret, and calls counts them.

Coll(i) == heap[db[i]]

Maps(m, x, y) == x \in DOMAIN m /\ m[x] = y

EmptyCollectionCase ==
    [][(/\ ret'.op = "compare_with_db"
        /\ ~ret'.blank
        /\ Coll(ret'.inst) = <<>>)
       => /\ ret'.outcome = "return"
          /\ ret'.value = Sentinel
          /\ ret'.value \notin Names
          /\ matches' = matches
          /\ heap'[db'[ret'.inst]] =
                IF ret'.add THEN <<[k |-> ret'.name, v |-> ret'.vec]>>
                ELSE <<>>]_vars

\* C3: compare-with-collection(S, N) on a non-empty collection returns the
\* name K at least distance from S, the one that comes first in the
\* collection among those at that distance, and the Match Set then maps N to
\* K and K to N.
NearestIsReturned ==
    [][(/\ ret'.op = "compare_with_db"
        /\ ~ret'.blank
        /\ Coll(ret'.inst) # <<>>)
       => LET C == Coll(ret'.inst)
              far(j) == Dist(ret'.vec, C[j].v)
          IN  /\ ret'.outcome = "return"
              /\ \E j \in 1..Len(C) :
                    /\ C[j].k = ret'.value
                    /\ \A k \in 1..Len(C) : far(j) <= far(k)
                    /\ \A k \in 1..(j - 1) : far(j) < far(k)
              /\ Maps(matches'[ret'.inst], ret'.name, ret'.value)
              /\ Maps(matches'[ret'.inst], ret'.value, ret'.name)]_vars

BuildIsPureInsertion ==
    [][(ret'.op = "build_db" /\ ret'.outcome = "return")
       => LET C == Coll(ret'.inst)
              C1 == heap'[db'[ret'.inst]]
          IN  /\ HasKey(C1, ret'.name)
              /\ Get(C1, ret'.name) = ret'.vec
              /\ \A n \in Names \ {ret'.name} :
                    /\ HasKey(C1, n) <=> HasKey(C, n)
                    /\ HasKey(C, n) => Get(C1, n) = Get(C, n)
              /\ Len(C1) = Cardinality({C1[j].k : j \in 1..Len(C1)})
              /\ matches' = matches]_vars

\* C5 happens: a build has overwritten the first of two entries (a key that
\* another key follows was there before this call), beside a non-empty
\* Match Set.
BuildWitness ==
    /\ ret.op = "build_db"
    /\ ret.outcome = "return"
    /\ Len(Coll(ret.inst)) >= 2
    /\ Coll(ret.inst)[1].k = ret.name
    /\ matches[ret.inst] # <<>>

\* C6: resolve-all on a collection of two or more names ends without error,
\* every name then has a Match Set entry, and a name that had none gets one
\* of the other names of the collection, with the entry back.
ResolveAllCompletes ==
    [][(ret'.op = "compare_db" /\ Len(Coll(ret'.inst)) >= 2)
       => LET C == Coll(ret'.inst)
              m == matches[ret'.inst]
              m1 == matches'[ret'.inst]
          IN  /\ ret'.outcome = "return"
              /\ \A j \in 1..Len(C) : C[j].k \in DOMAIN m1
              /\ \A j \in 1..Len(C) :
                    C[j].k \notin DOMAIN m =>
                        /\ m1[C[j].k] # C[j].k
                        /\ HasKey(C, m1[C[j].k])]_vars

\* C7: every Match Set starts empty, and a name that has an entry keeps
\* having one, whatever is called.
MatchSetOnlyGrows ==
    /\ \A i \in Insts : matches[i] = <<>>
    /\ [][\A i \in Insts : DOMAIN matches[i] \subseteq DOMAIN matches'[i]]_vars

\* C7 happens: a load has replaced the collection of an instance whose Match
\* Set still names a key the new collection lacks.
LoadWitness ==
    /\ ret.op = "load_db"
    /\ \E n \in DOMAIN matches[ret.inst] : ~HasKey(Coll(ret.inst), n)

\* C8: on an edge map with no edge pixel, build and compare-with-collection
\* raise, no signature comes out, and collections and Match Sets are as they
\* were.
BlankInputFails ==
    [][(ret'.op \in {"build_db", "compare_with_db"} /\ ret'.blank)
       => /\ ret'.outcome = "raise"
          /\ ret'.vec.exc # "none"
          /\ heap' = heap
          /\ db' = db
          /\ matches' = matches]_vars

\* C8 happens: a blank edge map was compared against a collection and a
\* Match Set that both have entries.
BlankWitness ==
    /\ ret.op = "compare_with_db"
    /\ ret.blank
    /\ database[ret.inst] # {}
    /\ Coll(ret.inst) # <<>>
    /\ matches[ret.inst] # <<>>

\* C9: the signature has W entries, every one a number between -1 and 1.
SignatureShape == id_vector.exc = "none" =>
    /\ Len(id_vector.num) = prep_scale[1]
    /\ \A c \in 1..Len(id_vector.num) : Abs(id_vector.num[c]) <= id_vector.den

\* C10: a build or compare-with-collection on one instance leaves the
\* collection of every other instance as it was, and an instance constructed
\* without a collection argument starts with an empty collection.
OwnCollection ==
    [][/\ \A j \in Insts :
             (/\ ret'.op \in {"build_db", "compare_with_db"}
              /\ j # ret'.inst
              /\ ctor[j] = "default")
             => heap'[db'[j]] = Coll(j)
       /\ ret'.op = "__init__" => heap'[db'[ret'.inst]] = <<>>]_vars
====
